---------------------------- MODULE Spec2Model ----------------------------
(***************************************************************************)
(* A model of the cpp-linter reporter (emmett2020/linter):                 *)
(*   - the position mapper of make_pr_review_comment (src/main.cpp and     *)
(*     src/tools/clang_tidy/base.cpp),                                     *)
(*   - the comment upsert protocol of github_api_client                    *)
(*     (src/github/api.h),                                                 *)
(*   - the per-tool scan loops of main, its banner and its exit status     *)
(*     (src/main.cpp, src/tools/base_reporter.cpp),                        *)
(*   - the diagnostic line parser and the run statistics parser           *)
(*     (src/tools/clang_tidy/base.cpp),                                    *)
(*   - the style checker's per-file operation                              *)
(*     (src/tools/clang_format.cpp).                                       *)
(* Each part has specifications of its own (SpecMap; SpecUpsert and        *)
(* SpecClient; SpecScan, SpecReport and SpecRun; SpecHeader and            *)
(* SpecStdout; SpecStderr; SpecFormat); the variables of the other parts   *)
(* stay at their idle values.                                              *)
(***************************************************************************)
EXTENDS Integers, Sequences, FiniteSets, TLC

VARIABLES
    \* position mapper
    patches_contains,   \* results.patches.contains(file) for the failed file
    patch,          \* the failed file's hunks, in diff order
    row,            \* the diagnostic's row (std::stoi(header.row_idx))
    comments,       \* positions of the review comments emitted for the diagnostic
    mpc,            \* "input" before make_pr_review_comment ran, "done" after
    \* comment upsert protocol
    pr_comments,    \* the pull request's issue comments at the hosting API, in list order
    run,            \* how many github_api_client objects were constructed so far
    comment_id_,    \* the live client's held id (std::uint32_t comment_id_)
    pr_number_,     \* the live client's pull request number (std::size_t pr_number_)
    log,            \* the clients' calls so far, one record per member call
    \* the scan of main
    ctx,            \* the run's options (context)
    changed_files,  \* git::patch::changed_files(patches), in list order
    needs_check,    \* per tool, the files its source_iregex matches
    linter_result,  \* cpp_linter_result
    spc,            \* where main is: "format", "tidy", "scanned", "summarised",
                    \* "reported", "commented", "reviewed", "exited", "aborted"
    idx,            \* the index of the scan loop's next file
    invoked,        \* the tool invocations so far, <<tool, file>> each
    summary_file,   \* what was written to the step summary file, in order
    posted,         \* what main posted to the hosting API, in order
    exit_status,    \* <<>> while main runs, << the value main returned >> after
    \* diagnostic line parser
    line,           \* the line handed to parse_diagnostic_header
    header,         \* what parse_diagnostic_header returned for it
    std_out,        \* the tool's standard output handed to parse_stdout
    diags,          \* what parse_stdout returned for it
    ppc,            \* "input" before the parser ran, "done" after
    \* run statistics parser
    std_err,        \* the tool's standard error handed to parse_stderr
    stat,           \* parse_stderr's statistic
    line_no,        \* how many lines of std_err its loop has passed
    epc,            \* "lines" while parse_stderr loops, "done" once it returned
    \* style checker's per-file operation
    format_input,   \* what a call of apply_on_single_file gets and its tool does
    format_outcome, \* the call's outcome: result, error, tool invocations
    fpc             \* "call" before apply_on_single_file ran, "done" after

mapVars == <<patches_contains, patch, row, comments, mpc>>
upsertVars == <<pr_comments, run, comment_id_, pr_number_, log>>

scanVars == <<ctx, changed_files, needs_check, linter_result, spc, idx, invoked,
              summary_file, posted, exit_status>>

parseVars == <<line, header, std_out, diags, ppc>>

statVars == <<std_err, stat, line_no, epc>>

formatVars == <<format_input, format_outcome, fpc>>

vars == <<patches_contains, patch, row, comments, mpc,
          pr_comments, run, comment_id_, pr_number_, log,
          ctx, changed_files, needs_check, linter_result, spc, idx, invoked,
          summary_file, posted, exit_status,
          line, header, std_out, diags, ppc,
          std_err, stat, line_no, epc,
          format_input, format_outcome, fpc>>

----------------------------------------------------------------------------
(* comment_id_ and pr_number_ are unsigned fields initialised with -1, and
   the code compares them with -1: the all-ones word is written -1 here as
   it is there.  An id of the hosting API is a 64-bit number, written
   [hi, lo] for hi * 2^32 + lo with lo its low 32-bit word. *)
UnsetCommentId == -1
UnsetPrNumber == -1

(* The variables of the upsert protocol before any client exists. *)
UpsertIdle ==
    /\ pr_comments = <<>>
    /\ run = 0
    /\ comment_id_ = UnsetCommentId
    /\ pr_number_ = UnsetPrNumber
    /\ log = <<>>

(* cpp_linter_result as main constructs it: the ignored files are vectors,
   passed and failed are maps from the file to the tool's result (the empty
   map is the function of the empty domain). *)
EmptyResult ==
    [clang_tidy_ignored_files |-> <<>>,
     clang_tidy_passed |-> <<>>,
     clang_tidy_failed |-> <<>>,
     clang_tidy_fastly_exit |-> FALSE,
     clang_format_ignored_files |-> <<>>,
     clang_format_passed |-> <<>>,
     clang_format_failed |-> <<>>,
     clang_format_fastly_exit |-> FALSE]

(* The variables of the scan when no run is modelled. *)
ScanIdle ==
    /\ ctx = [enable_clang_format |-> FALSE, enable_clang_tidy |-> FALSE,
              enable_clang_format_fastly_exit |-> FALSE,
              enable_clang_tidy_fastly_exit |-> FALSE,
              enable_pull_request_review |-> FALSE,
              enable_step_summary |-> FALSE,
              enable_comment_on_issue |-> FALSE]
    /\ changed_files = <<>>
    /\ needs_check = [clang_format |-> {}, clang_tidy |-> {}]
    /\ linter_result = EmptyResult
    /\ spc = "idle"
    /\ idx = 1
    /\ invoked = <<>>
    /\ summary_file = <<>>
    /\ posted = <<>>
    /\ exit_status = <<>>

(* std::optional<diagnostic_header> without a value. *)
nullopt == [has_value |-> FALSE]

(* The variables of the diagnostic line parser when it is not modelled. *)
ParseIdle ==
    /\ line = <<>>
    /\ header = nullopt
    /\ std_out = <<>>
    /\ diags = <<>>
    /\ ppc = "idle"

(* auto stat = statistic{}: every counter of a value-initialised statistic
   is zero. *)
statistic ==
    [warnings |-> 0,
     errors |-> 0,
     warnings_treated_as_errors |-> 0,
     total_suppressed_warnings |-> 0,
     non_user_code_warnings |-> 0,
     no_lint_warnings |-> 0]

(* The variables of the run statistics parser when it is not modelled. *)
StatIdle ==
    /\ std_err = <<>>
    /\ stat = statistic
    /\ line_no = 0
    /\ epc = "idle"

(* The variables of the style checker's per-file operation when it is not
   modelled. *)
FormatIdle ==
    /\ format_input = <<>>
    /\ format_outcome = <<>>
    /\ fpc = "idle"

(* Bounds of the position mapper's inputs. *)
MaxHunks == 2       \* hunks per patch
MaxStart == 4       \* largest new_start
MaxNewLines == 2    \* largest new_lines
MaxRemoved == 1     \* diff lines of a hunk that are not new-side lines

(* git::diff_hunk with the line count git::patch::get_hunk returns beside it:
   num_lines counts every diff line of the hunk (context, added, removed),
   and a hunk has at least one. *)
Hunks ==
    { h \in { [new_start |-> s, new_lines |-> n, num_lines |-> n + r] :
                 s \in 1..MaxStart, n \in 0..MaxNewLines, r \in 0..MaxRemoved } :
        h.num_lines >= 1 }

(* A FilePatch: hunks ascending by new_start, new-side ranges
   [new_start, new_start + new_lines) not overlapping. *)
OrderedPatch(p) ==
    \A i \in 1..(Len(p) - 1) :
        /\ p[i + 1].new_start >= p[i].new_start + p[i].new_lines
        /\ p[i + 1].new_start > p[i].new_start

Patches ==
    { p \in UNION { [1..n -> Hunks] : n \in 0..MaxHunks } : OrderedPatch(p) }

Rows == 0..(MaxStart + MaxNewLines + 1)

(* is_in_hunk with the upper bound exclusive. *)
is_in_hunk_exclusive(hunk, r) ==
    r >= hunk.new_start /\ r < hunk.new_start + hunk.new_lines

(* main.cpp is_in_hunk (github::is_row_in_hunk in base.cpp): the column is
   not read. *)
is_in_hunk(hunk, r) ==
    r >= hunk.new_start /\ r <= hunk.new_start + hunk.new_lines

(* comment.position without the leading 1. *)
comment_position_zero_based(pos, r, hunk) == pos + r - hunk.new_start

(* comment.position = pos + row - hunk.new_start + 1 *)
comment_position(pos, r, hunk) == pos + r - hunk.new_start + 1

(* The hunk loop of make_pr_review_comment for one diagnostic: i is the next
   hunk, pos the running offset, acc the comments emplaced so far.  A hunk
   that holds the row emplaces a comment and the loop goes on to the next
   hunk with pos as it is; a hunk that does not adds its num_lines to pos. *)
RECURSIVE hunk_loop(_, _, _, _, _)
hunk_loop(p, r, i, pos, acc) ==
    IF i > Len(p) THEN acc
    ELSE IF ~is_in_hunk(p[i], r)
         THEN hunk_loop(p, r, i + 1, pos + p[i].num_lines, acc)
         ELSE hunk_loop(p, r, i + 1, pos,
                        Append(acc, comment_position(pos, r, p[i])))

(* A lookup of a missing patch that ends as a lookup of a patch does. *)
missing_patch_skipped == {"done"}

(* How the operation ends for a failed file that has no patch:
   assert(results.patches.contains(file)) fails where assertions are
   compiled in, and results.patches.at(file) raises std::out_of_range where
   they are not. *)
missing_patch_outcomes == {"assert_failed", "raised"}

(* make_pr_review_comment for one failed file and one diagnostic of it. *)
make_pr_review_comment ==
    /\ mpc = "input"
    /\ IF patches_contains
       THEN /\ comments' = hunk_loop(patch, row, 1, 0, <<>>)
            /\ mpc' = "done"
       ELSE /\ comments' = comments
            /\ mpc' \in missing_patch_outcomes
    /\ UNCHANGED <<patches_contains, patch, row>>
    /\ UNCHANGED upsertVars
    /\ UNCHANGED scanVars
    /\ UNCHANGED parseVars
    /\ UNCHANGED statVars
    /\ UNCHANGED formatVars

MapIdle ==
    /\ patches_contains = FALSE
    /\ patch = <<>>
    /\ row = 0
    /\ comments = <<>>
    /\ mpc = "idle"

InitMap ==
    /\ patches_contains \in BOOLEAN
    /\ patch \in IF patches_contains THEN Patches ELSE {<<>>}
    /\ row \in Rows
    /\ comments = <<>>
    /\ mpc = "input"
    /\ UpsertIdle
    /\ ScanIdle
    /\ ParseIdle
    /\ StatIdle
    /\ FormatIdle

NextMap == make_pr_review_comment

SpecMap == InitMap /\ [][NextMap]_vars

----------------------------------------------------------------------------
(* Helpers of the claims about the position mapper. *)

(* The diff lines of hunks 1..k of p. *)
RECURSIVE DiffLinesBefore(_, _)
DiffLinesBefore(p, k) ==
    IF k = 0 THEN 0 ELSE DiffLinesBefore(p, k - 1) + p[k].num_lines

Contains(h, r) == h.new_start <= r /\ r <= h.new_start + h.new_lines

FirstContaining(p, r, k) ==
    /\ k \in 1..Len(p)
    /\ Contains(p[k], r)
    /\ \A j \in 1..(k - 1) : ~Contains(p[j], r)

(* C1: when hunk k is the first hunk of the patch that holds the diagnostic's
   row, the comment emitted at that hunk (the first one of the diagnostic)
   has position (diff lines of hunks before k) + row - new_start_k + 1. *)
C1_FirstHunkPosition ==
    mpc = "done" =>
        \A k \in 1..Len(patch) :
            FirstContaining(patch, row, k) =>
                /\ comments # <<>>
                /\ comments[1] =
                       DiffLinesBefore(patch, k - 1) + row - patch[k].new_start + 1

(* A diagnostic in the second hunk, past a first hunk that has diff lines. *)
C1_Witness ==
    /\ mpc = "done"
    /\ Len(patch) = 2
    /\ patch[1].num_lines > 0
    /\ FirstContaining(patch, row, 2)
    /\ row > patch[2].new_start
    /\ Len(comments) = 1

(* C2: a diagnostic yields exactly one comment when some hunk holds its row
   and none otherwise. *)
C2_OneCommentPerDiagnostic ==
    mpc = "done" =>
        Len(comments) =
            IF \E k \in 1..Len(patch) : Contains(patch[k], row) THEN 1 ELSE 0

(* C3: the upper bound of the membership test is inclusive: a row equal to
   new_start + new_lines of the first hunk that holds it is mapped to
   pos + new_lines + 1, and with a single hunk the rows new_start - 1 and
   new_start + new_lines + 1 are mapped to nothing. *)
C3_InclusiveUpperBound ==
    mpc = "done" =>
        /\ \A k \in 1..Len(patch) :
               ( /\ row = patch[k].new_start + patch[k].new_lines
                 /\ \A j \in 1..(k - 1) : ~Contains(patch[j], row) ) =>
                   /\ comments # <<>>
                   /\ comments[1] =
                          DiffLinesBefore(patch, k - 1) + patch[k].new_lines + 1
        /\ ( /\ Len(patch) = 1
             /\ row \in { patch[1].new_start - 1,
                          patch[1].new_start + patch[1].new_lines + 1 } ) =>
               comments = <<>>

(* A row one past the last new-side line of a hunk with new-side lines. *)
C3_Witness ==
    /\ mpc = "done"
    /\ Len(patch) = 1
    /\ patch[1].new_lines > 0
    /\ row = patch[1].new_start + patch[1].new_lines
    /\ comments = << patch[1].new_lines + 1 >>

----------------------------------------------------------------------------
(* The comment upsert protocol: github_api_client and the hosting API. *)

MaxHi == 1          \* largest high word of an id
MaxLo == 1          \* largest low word of an id besides the all-ones word
MaxComments == 2    \* comments on the pull request
MaxRuns == 2        \* clients constructed (one per process run)
MaxCalls == 4       \* member calls over all clients
MaxPr == 1          \* largest pull request number

our_name == "emmett2020"

Ids == { [hi |-> h, lo |-> l] : h \in 0..MaxHi, l \in {-1} \cup (1..MaxLo) }

(* No id: what a log record holds where the call has no id to show. *)
NoId == [hi |-> 0, lo |-> 0]

(* nlohmann's get_to into std::uint32_t comment_id_: a static_cast of the
   64-bit number, which keeps the low word. *)
to_uint32(id) == id.lo

(* The number a held word is when std::format writes it into the path. *)
as_id(word) == [hi |-> 0, lo |-> word]

(* is_our_comment: a comment without /user/login is ours, else the login
   decides. *)
is_our_comment(comment) ==
    IF ~comment.has_login THEN TRUE
    ELSE comment.login = our_name

(* std::ranges::find_if(comments, is_our_comment): the index of the first
   match from i on, Len + 1 for end(). *)
RECURSIVE find_if_ours(_, _)
find_if_ours(list, i) ==
    IF i > Len(list) THEN i
    ELSE IF is_our_comment(list[i]) THEN i
    ELSE find_if_ours(list, i + 1)

UsedIds == { pr_comments[i].id : i \in DOMAIN pr_comments }

(* A record of the log: the call (op), the request it sent, the answer it
   got, the id the request was addressed to (target), the id the answer
   carried for the client to hold (returned), whether the call raised, how
   many comments the pull request had (seen) and the held id before and
   after the call. *)
LogRecord(op, request, answer, target, returned, raised, after) ==
    [run |-> run, op |-> op, request |-> request, answer |-> answer,
     target |-> target, returned |-> returned, raised |-> raised,
     seen |-> Len(pr_comments), before |-> comment_id_, after |-> after]

(* main constructs a client per run with github_api_client{ctx}.  api.h
   declares only the defaulted constructor, so the constructor main uses is
   not in the sources: the default member initialisers give the held id its
   unset value, and the constructor is taken to read the pull request number
   from the context (parse_pr_number), as update_comment requires. *)
construct_client ==
    /\ run < MaxRuns
    /\ run' = run + 1
    /\ comment_id_' = UnsetCommentId
    /\ pr_number_' \in 1..MaxPr
    /\ UNCHANGED <<pr_comments, log>>
    /\ UNCHANGED mapVars
    /\ UNCHANGED scanVars
    /\ UNCHANGED parseVars
    /\ UNCHANGED statVars
    /\ UNCHANGED formatVars

(* get_issue_comment_id: the GET is answered with a failure status, with a
   null body, with a body that is no array, or with the list of comments. *)
get_issue_comment_id ==
    /\ run >= 1
    /\ Len(log) < MaxCalls
    /\ \E answer \in {"failure", "null", "object", "array"} :
        LET k == find_if_ours(pr_comments, 1) IN
        \/ /\ answer \in {"failure", "object"}      \* check_http_response, throw_unless(is_array)
           /\ log' = Append(log, LogRecord("fetch", "list", answer, NoId, NoId, TRUE, comment_id_))
           /\ UNCHANGED comment_id_
        \/ /\ \/ answer = "null"
              \/ answer = "array" /\ pr_comments = <<>>
              \/ answer = "array" /\ pr_comments # <<>> /\ k > Len(pr_comments)
           /\ log' = Append(log, LogRecord("fetch", "list", answer, NoId, NoId, FALSE, comment_id_))
           /\ UNCHANGED comment_id_
        \/ /\ answer = "array" /\ pr_comments # <<>> /\ k <= Len(pr_comments)
           /\ comment_id_' = to_uint32(pr_comments[k].id)
           /\ log' = Append(log, LogRecord("fetch", "list", answer, NoId,
                                           pr_comments[k].id, FALSE, comment_id_'))
    /\ UNCHANGED <<pr_comments, run, pr_number_>>
    /\ UNCHANGED mapVars
    /\ UNCHANGED scanVars
    /\ UNCHANGED parseVars
    /\ UNCHANGED statVars
    /\ UNCHANGED formatVars

(* add_comment: the POST is answered with a failure status, or the hosting
   API stores a new comment of the bot identity under a fresh id and answers
   with it. *)
add_comment ==
    \/ /\ log' = Append(log, LogRecord("upsert", "create", "failure", NoId, NoId, TRUE,
                                       comment_id_))
       /\ UNCHANGED <<pr_comments, comment_id_>>
    \/ /\ Len(pr_comments) < MaxComments
       /\ \E id \in Ids \ UsedIds :
            /\ pr_comments' = Append(pr_comments,
                                     [id |-> id, has_login |-> TRUE, login |-> our_name])
            /\ comment_id_' = to_uint32(id)
            /\ log' = Append(log, LogRecord("upsert", "create", "object", NoId, id, FALSE,
                                            comment_id_'))

(* A test of the held id that never finds it unset. *)
always_has_comment_id(id) == FALSE

(* comment_id_ == -1, in throw_if(comment_id_ == -1, "doesn't have comment_id
   yet") *)
doesnt_have_comment_id(id) == id = UnsetCommentId

(* update_comment: raises before any request while an id or the pull request
   number is unset; the POST to the held id succeeds only if the hosting API
   has a comment of that id. *)
update_comment ==
    \/ /\ doesnt_have_comment_id(comment_id_) \/ pr_number_ = UnsetPrNumber
       /\ log' = Append(log, LogRecord("upsert", "none", "none", NoId, NoId, TRUE,
                                       comment_id_))
       /\ UNCHANGED <<pr_comments, comment_id_>>
    \/ /\ ~doesnt_have_comment_id(comment_id_) /\ pr_number_ # UnsetPrNumber
       /\ \E ok \in BOOLEAN :
            /\ ok => as_id(comment_id_) \in UsedIds
            /\ log' = Append(log, LogRecord("upsert", "update",
                                            IF ok THEN "object" ELSE "failure",
                                            as_id(comment_id_), NoId, ~ok, comment_id_))
       /\ UNCHANGED <<pr_comments, comment_id_>>

(* add_or_update_comment *)
add_or_update_comment ==
    /\ run >= 1
    /\ Len(log) < MaxCalls
    /\ IF comment_id_ = UnsetCommentId THEN add_comment ELSE update_comment
    /\ UNCHANGED <<run, pr_number_>>
    /\ UNCHANGED mapVars
    /\ UNCHANGED scanVars
    /\ UNCHANGED parseVars
    /\ UNCHANGED statVars
    /\ UNCHANGED formatVars

(* Someone else comments on the pull request: under a login of their own, or
   as an account whose comment carries no login. *)
other_user_comments ==
    /\ Len(pr_comments) < MaxComments
    /\ \E id \in Ids \ UsedIds, has \in BOOLEAN :
         pr_comments' = Append(pr_comments,
                               [id |-> id, has_login |-> has,
                                login |-> IF has THEN "other" ELSE ""])
    /\ UNCHANGED <<run, comment_id_, pr_number_, log>>
    /\ UNCHANGED mapVars
    /\ UNCHANGED scanVars
    /\ UNCHANGED parseVars
    /\ UNCHANGED statVars
    /\ UNCHANGED formatVars

InitUpsert ==
    /\ UpsertIdle
    /\ MapIdle
    /\ ScanIdle
    /\ ParseIdle
    /\ StatIdle
    /\ FormatIdle

NextUpsert ==
    \/ construct_client
    \/ get_issue_comment_id
    \/ add_or_update_comment
    \/ other_user_comments

SpecUpsert == InitUpsert /\ [][NextUpsert]_vars

(* update_comment called on its own: it is a public member of the client. *)
call_update_comment ==
    /\ run >= 1
    /\ Len(log) < MaxCalls
    /\ update_comment
    /\ UNCHANGED <<run, pr_number_>>
    /\ UNCHANGED mapVars
    /\ UNCHANGED scanVars
    /\ UNCHANGED parseVars
    /\ UNCHANGED statVars
    /\ UNCHANGED formatVars

(* One client with every member that sends a request called in any order,
   on a pull request nobody else comments on. *)
NextClient ==
    \/ run = 0 /\ construct_client
    \/ get_issue_comment_id
    \/ add_or_update_comment
    \/ call_update_comment

SpecClient == InitUpsert /\ [][NextClient]_vars

----------------------------------------------------------------------------
(* Claims about the upsert protocol. *)

Ours(c) == ~c.has_login \/ c.login = our_name

(* The indices, among the first n comments, of those that are ours. *)
OursAmong(n) == { i \in 1..n : Ours(pr_comments[i]) }

Least(S) == CHOOSE x \in S : \A y \in S : x <= y

BotComments == { i \in DOMAIN pr_comments :
                   pr_comments[i].has_login /\ pr_comments[i].login = our_name }

(* Two runs, each a fresh client with one fetch then one upsert, on a pull
   request where every comment of somebody else carries their login; the
   calls of the first run and the second fetch did not raise. *)
TwoRuns ==
    /\ Len(log) = 4
    /\ log[1].run = 1 /\ log[1].op = "fetch" /\ ~log[1].raised
    /\ log[2].run = 1 /\ log[2].op = "upsert" /\ ~log[2].raised
    /\ log[3].run = 2 /\ log[3].op = "fetch" /\ ~log[3].raised
    /\ log[3].answer = "array"
    /\ log[4].run = 2 /\ log[4].op = "upsert"
    /\ \A i \in DOMAIN pr_comments : pr_comments[i].has_login

(* C4: over two consecutive runs that start with no bot comment, the first
   run sends one create, the second one update addressed to the id the create
   returned and no create, and the pull request never holds more than one bot
   comment. *)
C4_SecondRunUpdatesFirstRunsComment ==
    TwoRuns =>
        /\ log[2].request = "create"
        /\ log[4].request = "update"
        /\ log[4].target = log[2].returned
        /\ Cardinality(BotComments) <= 1

(* C5: an upsert called while no id is held sends a create and no update, and
   after a create that succeeded the held id is the id the answer carried. *)
C5_CreateFromNoKnownComment ==
    \A i \in DOMAIN log :
        (log[i].op = "upsert" /\ log[i].before = UnsetCommentId) =>
            /\ log[i].request = "create"
            /\ ~log[i].raised =>
                   /\ log[i].after # UnsetCommentId
                   /\ as_id(log[i].after) = log[i].returned

(* C6: once a client holds an id, each later call of that client starts and
   ends with an id held, and each later upsert sends an update addressed to
   the held id and leaves the held id as it is. *)
C6_HasCommentIdAbsorbing ==
    \A i, j \in DOMAIN log :
        (i < j /\ log[i].run = log[j].run /\ log[i].after # UnsetCommentId) =>
            /\ log[j].before # UnsetCommentId
            /\ log[j].after # UnsetCommentId
            /\ log[j].op = "upsert" =>
                   /\ log[j].request = "update"
                   /\ log[j].target = as_id(log[j].before)
                   /\ log[j].after = log[j].before

(* C7: a fetch that did not raise leaves the client holding the id of the
   first comment of the answered list that is ours (no login, or the login of
   the bot identity), and leaves the held id as it was when the answer is
   null, empty or has no such comment. *)
C7_FetchHoldsFirstOurs ==
    \A i \in DOMAIN log :
        (log[i].op = "fetch" /\ ~log[i].raised) =>
            IF log[i].answer = "array" /\ OursAmong(log[i].seen) # {}
            THEN as_id(log[i].after) = pr_comments[Least(OursAmong(log[i].seen))].id
            ELSE log[i].after = log[i].before

----------------------------------------------------------------------------
(* The scan of main: apply_clang_format_on_files, then
   apply_clang_tidy_on_files, over the changed files. *)

MaxFiles == 3           \* changed files of the run
MaxDiags == 1           \* diagnostics of a tool output that has diagnostics
MaxReplacements == 1    \* replacement elements of a document that has some

(* map[key] = value of std::unordered_map *)
MapPut(map, key, value) ==
    [k \in (DOMAIN map) \cup {key} |-> IF k = key THEN value ELSE map[k]]

(* A pattern that matches every path. *)
every_file_needs_to_be_checked(tool, file) == TRUE

(* file_needs_to_be_checked(opt.source_iregex, file): whether the tool's
   case-insensitive pattern matches the whole path, which the run's inputs
   fix per tool and file. *)
file_needs_to_be_checked(tool, file) == file \in needs_check[tool]

(* A loop that does not test the fast-exit option. *)
never_fastly_exits == FALSE

(* A loop that returns at the first failed file whatever the option says. *)
always_fastly_exits == TRUE

(* if (opt.enable_clang_format_fastly_exit) *)
clang_format_fastly_exits == ctx.enable_clang_format_fastly_exit

(* if (opt.enable_clang_tidy_fastly_exit) *)
clang_tidy_fastly_exits == ctx.enable_clang_tidy_fastly_exit

(* base_clang_tidy::apply_to_single_file: the tool ends with exit code ec,
   and parse_stdout finds n diagnostics in its standard output (the
   diagnostics are written 1..n here).  passed is the exit code's alone. *)
apply_to_single_file(file, ec, n) ==
    [pass |-> ec = 0, file |-> file, diags |-> [i \in 1..n |-> i]]

(* A document with a replacements root that has n replacement elements. *)
replacements_document(n) ==
    [xml_error |-> FALSE, children |-> <<"replacements">>, replacements |-> n]

(* The replacements documents clang-format may print: a document that does
   not parse, one without children, one whose only child is not named
   replacements, one with no replacement element and one with
   MaxReplacements of them. *)
XmlDocuments ==
    { [xml_error |-> TRUE, children |-> <<>>, replacements |-> 0],
      [xml_error |-> FALSE, children |-> <<>>, replacements |-> 0],
      [xml_error |-> FALSE, children |-> <<"other">>, replacements |-> 0],
      replacements_document(0),
      replacements_document(MaxReplacements) }

(* parse_replacements_xml: raises on a document that does not parse, has no
   children or no child named replacements; else the replacement elements
   in document order (written 1..n here). *)
parse_replacements_xml(data) ==
    IF data.xml_error
    THEN [raised |-> TRUE, replacements |-> <<>>]
    ELSE IF data.children = <<>>
    THEN [raised |-> TRUE, replacements |-> <<>>]
    ELSE IF \A i \in DOMAIN data.children : data.children[i] # "replacements"
    THEN [raised |-> TRUE, replacements |-> <<>>]
    ELSE [raised |-> FALSE, replacements |-> [i \in 1..data.replacements |-> i]]

(* A result of a failed invocation that passes. *)
passing_result_of_failed_tool(file) ==
    [pass |-> TRUE, file |-> file, replacements |-> <<>>,
     formatted_source_code |-> ""]

(* return {.pass = false, .file = file, .replacements = {}, ...}: what
   apply_on_single_file returns when an invocation's exit code is not 0. *)
result_of_failed_tool(file) ==
    [pass |-> FALSE, file |-> file, replacements |-> <<>>,
     formatted_source_code |-> ""]

(* The formatted source attached to a result that then fails. *)
failing_with_formatted_source_code(res, code_out) ==
    [res EXCEPT !.formatted_source_code = code_out, !.pass = FALSE]

(* res.formatted_source_code = code_res.std_out *)
with_formatted_source_code(res, code_out) ==
    [res EXCEPT !.formatted_source_code = code_out]

(* clang_format::apply_on_single_file.  xml_ec and data are the exit code and
   the standard output of the invocation with --output-replacements-xml,
   code_ec and code_out those of the invocation that prints the formatted
   source.  raised tells that parse_replacements_xml raised, executed lists
   the calls of execute in the order they were made. *)
apply_on_single_file(needs_formatted_source_code, file, xml_ec, data, code_ec, code_out) ==
    LET xml_res == [output_style |-> "replacement_xml", exit_code |-> xml_ec]
        code_res == [output_style |-> "formatted_source_code",
                     exit_code |-> code_ec]
    IN
    IF xml_ec # 0
    THEN [raised |-> FALSE, executed |-> <<xml_res>>,
          result |-> result_of_failed_tool(file)]
    ELSE LET parsed == parse_replacements_xml(data)
             res == [pass |-> parsed.replacements = <<>>, file |-> file,
                     replacements |-> parsed.replacements,
                     formatted_source_code |-> ""]
         IN IF parsed.raised
            THEN [raised |-> TRUE, executed |-> <<xml_res>>, result |-> res]
            ELSE IF needs_formatted_source_code
            THEN IF code_ec # 0
                 THEN [raised |-> FALSE, executed |-> <<xml_res, code_res>>,
                       result |-> result_of_failed_tool(file)]
                 ELSE [raised |-> FALSE, executed |-> <<xml_res, code_res>>,
                       result |-> with_formatted_source_code(res, code_out)]
            ELSE [raised |-> FALSE, executed |-> <<xml_res>>, result |-> res]

(* The loop body after the invocation with the continue after the passed
   branch left out: a passing file falls through to the failed map. *)
save_clang_tidy_result_without_continue(lr, file, result) ==
    IF result.pass
    THEN [lr EXCEPT !.clang_tidy_passed = MapPut(@, file, result),
                    !.clang_tidy_failed = MapPut(@, file, result)]
    ELSE [lr EXCEPT !.clang_tidy_failed = MapPut(@, file, result)]

(* "Run clang-tidy then save result": linter_result.clang_tidy_passed[file]
   or linter_result.clang_tidy_failed[file], by result.pass. *)
save_clang_tidy_result(lr, file, result) ==
    IF result.pass
    THEN [lr EXCEPT !.clang_tidy_passed = MapPut(@, file, result)]
    ELSE [lr EXCEPT !.clang_tidy_failed = MapPut(@, file, result)]

(* linter_result.clang_format_passed[file] or
   linter_result.clang_format_failed[file], by result.pass. *)
save_clang_format_result(lr, file, result) ==
    IF result.pass
    THEN [lr EXCEPT !.clang_format_passed = MapPut(@, file, result)]
    ELSE [lr EXCEPT !.clang_format_failed = MapPut(@, file, result)]

ExitCodes == {0, 1}

(* The loop's files from the last to the first. *)
file_from_the_back(i) == changed_files[Len(changed_files) + 1 - i]

(* for (const auto &file: changed_files): the file of the loop's iteration
   i. *)
file_of_iteration(i) == changed_files[i]

(* One iteration of the loop of apply_clang_format_on_files.  An error that
   apply_on_single_file raises is caught nowhere in main. *)
apply_clang_format_on_files ==
    /\ spc = "format"
    /\ ctx.enable_clang_format
    /\ idx <= Len(changed_files)
    /\ LET file == file_of_iteration(idx) IN
       IF ~file_needs_to_be_checked("clang_format", file)
       THEN /\ linter_result' =
                   [linter_result EXCEPT !.clang_format_ignored_files = Append(@, file)]
            /\ idx' = idx + 1
            /\ UNCHANGED <<spc, invoked>>
       ELSE /\ invoked' = Append(invoked, <<"clang_format", file>>)
            /\ \E r \in { apply_on_single_file(ctx.enable_pull_request_review, file,
                                                 xml_ec, data, code_ec, "formatted") :
                            xml_ec \in ExitCodes, data \in XmlDocuments,
                            code_ec \in ExitCodes } :
                    IF r.raised
                    THEN /\ spc' = "aborted"
                         /\ UNCHANGED <<linter_result, idx>>
                    ELSE IF r.result.pass \/ ~clang_format_fastly_exits
                    THEN /\ linter_result' =
                                save_clang_format_result(linter_result, file, r.result)
                         /\ idx' = idx + 1
                         /\ UNCHANGED spc
                    ELSE /\ linter_result' =
                                [save_clang_format_result(linter_result, file, r.result)
                                    EXCEPT !.clang_tidy_fastly_exit = TRUE]
                         /\ spc' = "tidy"
                         /\ idx' = 1
    /\ UNCHANGED <<ctx, changed_files, needs_check, summary_file, posted,
                   exit_status>>
    /\ UNCHANGED mapVars
    /\ UNCHANGED upsertVars
    /\ UNCHANGED parseVars
    /\ UNCHANGED statVars
    /\ UNCHANGED formatVars

(* The style checker is disabled, or its loop is past the last file: main
   goes on to the diagnostics checker. *)
clang_format_scan_ends ==
    /\ spc = "format"
    /\ ~ctx.enable_clang_format \/ idx > Len(changed_files)
    /\ spc' = "tidy"
    /\ idx' = 1
    /\ UNCHANGED <<ctx, changed_files, needs_check, linter_result, invoked,
                   summary_file, posted, exit_status>>
    /\ UNCHANGED mapVars
    /\ UNCHANGED upsertVars
    /\ UNCHANGED parseVars
    /\ UNCHANGED statVars
    /\ UNCHANGED formatVars

(* One iteration of the loop of apply_clang_tidy_on_files. *)
apply_clang_tidy_on_files ==
    /\ spc = "tidy"
    /\ ctx.enable_clang_tidy
    /\ idx <= Len(changed_files)
    /\ LET file == file_of_iteration(idx) IN
       IF ~file_needs_to_be_checked("clang_tidy", file)
       THEN /\ linter_result' =
                   [linter_result EXCEPT !.clang_tidy_ignored_files = Append(@, file)]
            /\ idx' = idx + 1
            /\ UNCHANGED <<spc, invoked>>
       ELSE /\ invoked' = Append(invoked, <<"clang_tidy", file>>)
            /\ \E ec \in ExitCodes, n \in {0, MaxDiags} :
                 LET result == apply_to_single_file(file, ec, n)
                 IN IF result.pass \/ ~clang_tidy_fastly_exits
                    THEN /\ linter_result' =
                                save_clang_tidy_result(linter_result, file, result)
                         /\ idx' = idx + 1
                         /\ UNCHANGED spc
                    ELSE /\ linter_result' =
                                [save_clang_tidy_result(linter_result, file, result)
                                    EXCEPT !.clang_tidy_fastly_exit = TRUE]
                         /\ spc' = "scanned"
                         /\ idx' = 1
    /\ UNCHANGED <<ctx, changed_files, needs_check, summary_file, posted,
                   exit_status>>
    /\ UNCHANGED mapVars
    /\ UNCHANGED upsertVars
    /\ UNCHANGED parseVars
    /\ UNCHANGED statVars
    /\ UNCHANGED formatVars

(* The diagnostics checker is disabled, or its loop is past the last file. *)
clang_tidy_scan_ends ==
    /\ spc = "tidy"
    /\ ~ctx.enable_clang_tidy \/ idx > Len(changed_files)
    /\ spc' = "scanned"
    /\ idx' = 1
    /\ UNCHANGED <<ctx, changed_files, needs_check, linter_result, invoked,
                   summary_file, posted, exit_status>>
    /\ UNCHANGED mapVars
    /\ UNCHANGED upsertVars
    /\ UNCHANGED parseVars
    /\ UNCHANGED statVars
    /\ UNCHANGED formatVars

(* make_brief_result: the hint of the banner and the tools whose detail
   block follows it, in the order they are appended. *)
make_brief_result ==
    LET clang_tidy_passed == DOMAIN linter_result.clang_tidy_failed = {}
        clang_format_passed == DOMAIN linter_result.clang_format_failed = {}
        all_check_passes == clang_tidy_passed /\ clang_format_passed
    IN IF all_check_passes
       THEN [hint |-> "hint_pass", details |-> <<>>]
       ELSE [hint |-> "hint_fail",
             details |-> (IF ~clang_format_passed THEN <<"clang_format">> ELSE <<>>)
                         \o (IF ~clang_tidy_passed THEN <<"clang_tidy">> ELSE <<>>)]

(* main.cpp:362-367: file << make_brief_result(ctx, linter_result) *)
write_step_summary ==
    /\ spc = "scanned"
    /\ summary_file' =
           IF ctx.enable_step_summary
           THEN Append(summary_file,
                       [by |-> "make_brief_result",
                        hint |-> make_brief_result.hint,
                        details |-> make_brief_result.details])
           ELSE summary_file
    /\ spc' = "summarised"
    /\ UNCHANGED <<ctx, changed_files, needs_check, linter_result, idx, invoked,
                   posted, exit_status>>
    /\ UNCHANGED mapVars
    /\ UNCHANGED upsertVars
    /\ UNCHANGED parseVars
    /\ UNCHANGED statVars
    /\ UNCHANGED formatVars

(* The reporters of the run: one per enabled tool, the style checker's
   first. *)
reporters ==
    (IF ctx.enable_clang_format THEN <<"clang_format">> ELSE <<>>)
    \o (IF ctx.enable_clang_tidy THEN <<"clang_tidy">> ELSE <<>>)

(* reporter->get_brief_result(): is_passed tells that the tool's failed
   files are empty. *)
get_brief_result(reporter) ==
    [is_passed |-> IF reporter = "clang_format"
                   THEN DOMAIN linter_result.clang_format_failed = {}
                   ELSE DOMAIN linter_result.clang_tidy_failed = {}]

(* all_passed: the loop from reporter i on. *)
RECURSIVE all_passed_from(_, _)
all_passed_from(rs, i) ==
    IF i > Len(rs) THEN TRUE
    ELSE IF get_brief_result(rs[i]).is_passed THEN FALSE
    ELSE all_passed_from(rs, i + 1)

all_passed(rs) == all_passed_from(rs, 1)

(* write_to_github_step_summary of the reporters: the pass banner alone, or
   the fail banner and every reporter's step summary. *)
write_to_github_step_summary ==
    /\ spc = "summarised"
    /\ summary_file' =
           Append(summary_file,
                  IF all_passed(reporters)
                  THEN [by |-> "write_to_github_step_summary",
                        hint |-> "hint_pass", details |-> <<>>]
                  ELSE [by |-> "write_to_github_step_summary",
                        hint |-> "hint_fail", details |-> reporters])
    /\ spc' = "reported"
    /\ UNCHANGED <<ctx, changed_files, needs_check, linter_result, idx, invoked,
                   posted, exit_status>>
    /\ UNCHANGED mapVars
    /\ UNCHANGED upsertVars
    /\ UNCHANGED parseVars
    /\ UNCHANGED statVars
    /\ UNCHANGED formatVars

(* main.cpp:369-373: the brief result is posted as the issue comment, when
   enable_comment_on_issue.  The requests the client makes for it are the
   comment upsert protocol's. *)
comment_on_issue ==
    /\ spc = "reported"
    /\ posted' = IF ctx.enable_comment_on_issue
                 THEN Append(posted, "issue_comment")
                 ELSE posted
    /\ spc' = "commented"
    /\ UNCHANGED <<ctx, changed_files, needs_check, linter_result, idx, invoked,
                   summary_file, exit_status>>
    /\ UNCHANGED mapVars
    /\ UNCHANGED upsertVars
    /\ UNCHANGED parseVars
    /\ UNCHANGED statVars
    /\ UNCHANGED formatVars

(* main.cpp:375-380: the review comments are built and posted as a pull
   request review, when enable_pull_request_review. *)
post_pull_request_review ==
    /\ spc = "commented"
    /\ posted' = IF ctx.enable_pull_request_review
                 THEN Append(posted, "review")
                 ELSE posted
    /\ spc' = "reviewed"
    /\ UNCHANGED <<ctx, changed_files, needs_check, linter_result, idx, invoked,
                   summary_file, exit_status>>
    /\ UNCHANGED mapVars
    /\ UNCHANGED upsertVars
    /\ UNCHANGED parseVars
    /\ UNCHANGED statVars
    /\ UNCHANGED formatVars

(* all_passes with the style checker's failed files counted as well. *)
all_passes_of_both_tools ==
    /\ ctx.enable_clang_tidy => DOMAIN linter_result.clang_tidy_failed = {}
    /\ ctx.enable_clang_format => DOMAIN linter_result.clang_format_failed = {}

(* main.cpp:387-390: all_passes *)
all_passes ==
    ctx.enable_clang_tidy => DOMAIN linter_result.clang_tidy_failed = {}

(* return all_passes ? 0 : 1 *)
main_returns ==
    /\ spc = "reviewed"
    /\ exit_status' = << IF all_passes THEN 0 ELSE 1 >>
    /\ spc' = "exited"
    /\ UNCHANGED <<ctx, changed_files, needs_check, linter_result, idx, invoked,
                   summary_file, posted>>
    /\ UNCHANGED mapVars
    /\ UNCHANGED upsertVars
    /\ UNCHANGED parseVars
    /\ UNCHANGED statVars
    /\ UNCHANGED formatVars

(* main up to the scans: the options the scans read, the changed files (the
   keys of the patches, so no path twice; a path is written as its place in
   the list) and an empty cpp_linter_result.  The outputs that follow the
   scans are off here (SpecReport and SpecRun have them). *)
InitScan ==
    /\ ctx \in [enable_clang_format : BOOLEAN, enable_clang_tidy : BOOLEAN,
                enable_clang_format_fastly_exit : BOOLEAN,
                enable_clang_tidy_fastly_exit : BOOLEAN,
                enable_pull_request_review : {FALSE},
                enable_step_summary : {FALSE},
                enable_comment_on_issue : {FALSE}]
    /\ \E n \in 0..MaxFiles :
         /\ changed_files = [i \in 1..n |-> i]
         /\ needs_check \in [clang_format : SUBSET (1..n), clang_tidy : SUBSET (1..n)]
    /\ linter_result = EmptyResult
    /\ spc = "format"
    /\ idx = 1
    /\ invoked = <<>>
    /\ summary_file = <<>>
    /\ posted = <<>>
    /\ exit_status = <<>>
    /\ MapIdle
    /\ UpsertIdle
    /\ ParseIdle
    /\ StatIdle
    /\ FormatIdle

NextScan ==
    \/ apply_clang_format_on_files
    \/ clang_format_scan_ends
    \/ apply_clang_tidy_on_files
    \/ clang_tidy_scan_ends

SpecScan == InitScan /\ [][NextScan]_vars

(* The files of 1..n that are in S, in list order. *)
RECURSIVE InOrder(_, _)
InOrder(S, n) ==
    IF n = 0 THEN <<>>
    ELSE IF n \in S THEN Append(InOrder(S, n - 1), n)
    ELSE InOrder(S, n - 1)

FilesOf(class, c) == { f \in DOMAIN class : class[f] = c }

(* cpp_linter_result after scans without fast exit in which the style
   checker handled the files as the function format tells and the diagnostics
   checker as tidy tells ("ignored", "passed", "failed"; the function of a
   disabled tool is empty): a passing file has no finding, a failing file
   has findings. *)
ScannedResult(format, tidy, n) ==
    [clang_tidy_ignored_files |-> InOrder(FilesOf(tidy, "ignored"), n),
     clang_tidy_passed |->
         [f \in FilesOf(tidy, "passed") |-> apply_to_single_file(f, 0, 0)],
     clang_tidy_failed |->
         [f \in FilesOf(tidy, "failed") |-> apply_to_single_file(f, 1, MaxDiags)],
     clang_tidy_fastly_exit |-> FALSE,
     clang_format_ignored_files |-> InOrder(FilesOf(format, "ignored"), n),
     clang_format_passed |->
         [f \in FilesOf(format, "passed") |->
             apply_on_single_file(FALSE, f, 0, replacements_document(0),
                                  0, "").result],
     clang_format_failed |->
         [f \in FilesOf(format, "failed") |->
             apply_on_single_file(FALSE, f, 0,
                                  replacements_document(MaxReplacements),
                                  0, "").result],
     clang_format_fastly_exit |-> FALSE]

(* main after the scans (main.cpp:361) of a run without fast exit and
   without review. *)
InitReport ==
    /\ ctx \in [enable_clang_format : BOOLEAN, enable_clang_tidy : BOOLEAN,
                enable_clang_format_fastly_exit : {FALSE},
                enable_clang_tidy_fastly_exit : {FALSE},
                enable_pull_request_review : {FALSE},
                enable_step_summary : BOOLEAN,
                enable_comment_on_issue : {FALSE}]
    /\ \E n \in 0..MaxFiles :
         \E format \in [1..(IF ctx.enable_clang_format THEN n ELSE 0) ->
                            {"ignored", "passed", "failed"}],
            tidy \in [1..(IF ctx.enable_clang_tidy THEN n ELSE 0) ->
                          {"ignored", "passed", "failed"}] :
            /\ changed_files = [i \in 1..n |-> i]
            /\ needs_check =
                   [clang_format |-> DOMAIN format \ FilesOf(format, "ignored"),
                    clang_tidy |-> DOMAIN tidy \ FilesOf(tidy, "ignored")]
            /\ linter_result = ScannedResult(format, tidy, n)
            /\ invoked =
                   [i \in 1..Cardinality(DOMAIN format \ FilesOf(format, "ignored")) |->
                       <<"clang_format",
                         InOrder(DOMAIN format \ FilesOf(format, "ignored"), n)[i]>>]
                   \o [i \in 1..Cardinality(DOMAIN tidy \ FilesOf(tidy, "ignored")) |->
                          <<"clang_tidy",
                            InOrder(DOMAIN tidy \ FilesOf(tidy, "ignored"), n)[i]>>]
    /\ spc = "scanned"
    /\ idx = 1
    /\ summary_file = <<>>
    /\ posted = <<>>
    /\ exit_status = <<>>
    /\ MapIdle
    /\ UpsertIdle
    /\ ParseIdle
    /\ StatIdle
    /\ FormatIdle

NextReport ==
    \/ write_step_summary
    \/ write_to_github_step_summary
    \/ comment_on_issue
    \/ post_pull_request_review
    \/ main_returns

SpecReport == InitReport /\ [][NextReport]_vars

----------------------------------------------------------------------------
(* Claims about the scan. *)

Tools == {"clang_format", "clang_tidy"}

Range(seq) == { seq[i] : i \in DOMAIN seq }

IgnoredOf(tool) ==
    IF tool = "clang_format"
    THEN Range(linter_result.clang_format_ignored_files)
    ELSE Range(linter_result.clang_tidy_ignored_files)

PassedOf(tool) ==
    IF tool = "clang_format"
    THEN DOMAIN linter_result.clang_format_passed
    ELSE DOMAIN linter_result.clang_tidy_passed

FailedOf(tool) ==
    IF tool = "clang_format"
    THEN DOMAIN linter_result.clang_format_failed
    ELSE DOMAIN linter_result.clang_tidy_failed

FastExitEnabled(tool) ==
    IF tool = "clang_format"
    THEN ctx.enable_clang_format_fastly_exit
    ELSE ctx.enable_clang_tidy_fastly_exit

(* C8: with fast exit enabled for a tool, at most one file is in the tool's
   failed files, and once a file failed, no file after it in the list was
   handed to the tool or is in the tool's ignored, passed or failed files. *)
C8_FastExitTruncatesScan ==
    \A tool \in Tools :
        FastExitEnabled(tool) =>
            /\ Cardinality(FailedOf(tool)) <= 1
            /\ \A i, j \in DOMAIN changed_files :
                   (changed_files[i] \in FailedOf(tool) /\ j > i) =>
                       /\ <<tool, changed_files[j]>> \notin Range(invoked)
                       /\ changed_files[j] \notin
                              IgnoredOf(tool) \cup PassedOf(tool) \cup FailedOf(tool)

(* Three files, the first fails the diagnostics checker with fast exit on:
   failed = {first}, nothing passed, nothing ignored, the others not scanned. *)
C8_Witness ==
    /\ spc = "scanned"
    /\ Len(changed_files) = 3
    /\ ctx.enable_clang_tidy_fastly_exit
    /\ FailedOf("clang_tidy") = {changed_files[1]}
    /\ PassedOf("clang_tidy") = {}
    /\ IgnoredOf("clang_tidy") = {}
    /\ \A j \in 2..3 : <<"clang_tidy", changed_files[j]>> \notin Range(invoked)

(* C9: after a tool's scan, the tool's own fast_exit_triggered flag is true
   exactly when fast exit is enabled for the tool and a file failed it. *)
C9_OwnFastExitFlag ==
    /\ spc \in {"tidy", "scanned"} =>
           linter_result.clang_format_fastly_exit =
               ( /\ ctx.enable_clang_format
                 /\ ctx.enable_clang_format_fastly_exit
                 /\ FailedOf("clang_format") # {} )
    /\ spc = "scanned" =>
           linter_result.clang_tidy_fastly_exit =
               ( /\ ctx.enable_clang_tidy
                 /\ ctx.enable_clang_tidy_fastly_exit
                 /\ FailedOf("clang_tidy") # {} )

FormatReport ==
    <<linter_result.clang_format_ignored_files, linter_result.clang_format_passed,
      linter_result.clang_format_failed, linter_result.clang_format_fastly_exit>>

TidyReport ==
    <<linter_result.clang_tidy_ignored_files, linter_result.clang_tidy_passed,
      linter_result.clang_tidy_failed, linter_result.clang_tidy_fastly_exit>>

(* C10: a step of one tool's scan leaves every field of the other tool's
   report as it was, and a diagnostics scan that ends without a failure has
   every changed file in its report. *)
C10_ToolsIndependent ==
    [][ /\ spc = "format" => TidyReport' = TidyReport
        /\ spc = "tidy" => FormatReport' = FormatReport
        /\ ( /\ spc = "tidy" /\ spc' = "scanned"
             /\ ctx.enable_clang_tidy
             /\ FailedOf("clang_tidy")' = {} ) =>
               Range(changed_files) =
                   (IgnoredOf("clang_tidy") \cup PassedOf("clang_tidy"))' ]_vars

(* The tool is enabled and its loop has returned. *)
ScanOver(tool) ==
    IF tool = "clang_format"
    THEN /\ ctx.enable_clang_format
         /\ spc \in {"tidy", "scanned", "summarised", "reported", "commented",
                     "reviewed", "exited"}
    ELSE /\ ctx.enable_clang_tidy
         /\ spc \in {"scanned", "summarised", "reported", "commented",
                     "reviewed", "exited"}

(* The tool's loop is at work and has handled the file at place i, or it has
   returned without a fast exit. *)
LoopPassed(tool, i) ==
    \/ /\ spc = (IF tool = "clang_format" THEN "format" ELSE "tidy")
       /\ IF tool = "clang_format" THEN ctx.enable_clang_format
                                   ELSE ctx.enable_clang_tidy
       /\ i < idx
    \/ /\ ScanOver(tool)
       /\ ~(FastExitEnabled(tool) /\ FailedOf(tool) # {})

ReportedOf(tool) == IgnoredOf(tool) \cup PassedOf(tool) \cup FailedOf(tool)

(* C11: at every step of a scan, no file is in two of a tool's ignored,
   passed and failed files. *)
C11_CollectionsDisjoint ==
    \A tool \in Tools :
        /\ IgnoredOf(tool) \cap PassedOf(tool) = {}
        /\ IgnoredOf(tool) \cap FailedOf(tool) = {}
        /\ PassedOf(tool) \cap FailedOf(tool) = {}

(* The diagnostics checker ignored a file, passed a file and failed a file. *)
C11_Witness ==
    /\ spc = "scanned"
    /\ IgnoredOf("clang_tidy") # {}
    /\ PassedOf("clang_tidy") # {}
    /\ FailedOf("clang_tidy") # {}

(* C12: once a tool's loop has returned, its ignored, passed and failed
   files are all changed files, and they are every changed file when fast
   exit is disabled for the tool or no file failed it; files are missing
   only after a fast exit. *)
C12_UnionIsAllFilesWithoutFastExit ==
    \A tool \in Tools :
        ScanOver(tool) =>
            /\ ReportedOf(tool) \subseteq Range(changed_files)
            /\ (~FastExitEnabled(tool) \/ FailedOf(tool) = {}) =>
                   ReportedOf(tool) = Range(changed_files)
            /\ ReportedOf(tool) # Range(changed_files) =>
                   /\ FastExitEnabled(tool)
                   /\ Cardinality(FailedOf(tool)) = 1

(* A diagnostics scan of three files with fast exit disabled in which a file
   failed: every file is reported. *)
C12_Witness ==
    /\ spc = "scanned"
    /\ ctx.enable_clang_tidy
    /\ ~ctx.enable_clang_tidy_fastly_exit
    /\ Len(changed_files) = 3
    /\ changed_files[1] \in FailedOf("clang_tidy")
    /\ ReportedOf("clang_tidy") = Range(changed_files)

(* C13: a tool is invoked only on files its pattern matches; a file in the
   tool's ignored files does not match, was never handed to the tool and is
   in neither the passed nor the failed files; and a file the loop has
   handled that does not match is in the ignored files. *)
C13_IgnoredNeverInvoked ==
    \A tool \in Tools : \A i \in DOMAIN changed_files :
        LET file == changed_files[i] IN
        /\ <<tool, file>> \in Range(invoked) => file \in needs_check[tool]
        /\ file \in IgnoredOf(tool) =>
               /\ file \notin needs_check[tool]
               /\ <<tool, file>> \notin Range(invoked)
               /\ file \notin PassedOf(tool) \cup FailedOf(tool)
        /\ (LoopPassed(tool, i) /\ file \notin needs_check[tool]) =>
               file \in IgnoredOf(tool)

(* The diagnostics checker ignored the first file and was run on the
   second. *)
C13_Witness ==
    /\ spc = "scanned"
    /\ Len(changed_files) >= 2
    /\ changed_files[1] \in IgnoredOf("clang_tidy")
    /\ invoked # <<>>
    /\ invoked[Len(invoked)] = <<"clang_tidy", changed_files[2]>>

(* C14: a file in the diagnostics checker's passed files has no diagnostic
   and one in its failed files has some; a file in the style checker's
   passed files has no replacement and one in its failed files has some. *)
C14_ClassifiedByEmptyFindings ==
    /\ \A file \in PassedOf("clang_tidy") :
           linter_result.clang_tidy_passed[file].diags = <<>>
    /\ \A file \in FailedOf("clang_tidy") :
           linter_result.clang_tidy_failed[file].diags # <<>>
    /\ \A file \in PassedOf("clang_format") :
           linter_result.clang_format_passed[file].replacements = <<>>
    /\ \A file \in FailedOf("clang_format") :
           linter_result.clang_format_failed[file].replacements # <<>>

(* C15: every banner written is the pass banner with no detail block exactly
   when no tool has a failed file, and the fail banner with detail blocks
   otherwise; the banner of make_brief_result and the banner of
   write_to_github_step_summary have the same hint. *)
C15_BannerIffNoFailedFile ==
    /\ \A i \in DOMAIN summary_file :
           IF FailedOf("clang_format") = {} /\ FailedOf("clang_tidy") = {}
           THEN summary_file[i].hint = "hint_pass" /\ summary_file[i].details = <<>>
           ELSE summary_file[i].hint = "hint_fail" /\ summary_file[i].details # <<>>
    /\ \A i, j \in DOMAIN summary_file : summary_file[i].hint = summary_file[j].hint

(* C16: main returns failure exactly when the diagnostics checker is enabled
   and has a failed file. *)
C16_ExitStatusByDiagnosticsChecker ==
    spc = "exited" =>
        ( exit_status = <<1>> <=>
              (ctx.enable_clang_tidy /\ FailedOf("clang_tidy") # {}) )

(* A run in which only the style checker has failed files returns success. *)
C16_Witness ==
    /\ spc = "exited"
    /\ ctx.enable_clang_tidy
    /\ FailedOf("clang_format") # {}
    /\ FailedOf("clang_tidy") = {}
    /\ PassedOf("clang_tidy") # {}
    /\ exit_status = <<0>>

----------------------------------------------------------------------------
(* The diagnostic line parser of clang_tidy/base.cpp.  A text is the
   sequence of its characters. *)

header_fields == 5      \* std::distance(parts.begin(), parts.end()) != 5
MaxExtraFields == 1     \* fields of an input line beyond header_fields
MaxLines == 3           \* lines of a tool output

(* std::views::split(s, sep): the parts between the separators, empty parts
   kept; an empty text has no part.  Part k lies between separator k - 1 and
   separator k, the end of the text standing for a last separator. *)
split(s, sep) ==
    IF s = <<>> THEN <<>>
    ELSE LET ends == { i \in 1..(Len(s) + 1) : i = Len(s) + 1 \/ s[i] = sep }
             end_of(k) == CHOOSE i \in ends :
                              Cardinality({ j \in ends : j <= i }) = k
             begin_of(k) == IF k = 1 THEN 1 ELSE end_of(k - 1) + 1
         IN [k \in 1..Cardinality(ends) |->
                SubSeq(s, begin_of(k), end_of(k) - 1)]

(* ::isdigit *)
isdigit(c) == c \in {"0", "1", "2", "3", "4", "5", "6", "7", "8", "9"}

(* std::ranges::all_of(s, ::isdigit) *)
all_of_isdigit(s) == \A i \in DOMAIN s : isdigit(s[i])

(* std::ranges::find(s, c): the place of the first c, Len(s) + 1 for end(). *)
find(s, c) ==
    IF \E i \in DOMAIN s : s[i] = c
    THEN CHOOSE i \in DOMAIN s : s[i] = c /\ \A j \in 1..(i - 1) : s[j] # c
    ELSE Len(s) + 1

(* trim_left: the text without its leading white space. *)
RECURSIVE trim_left(_)
trim_left(s) ==
    IF s # <<>> /\ s[1] \in {" ", "\t"} THEN trim_left(Tail(s)) ELSE s

(* The severities without info. *)
supported_serverity_without_info ==
    { <<"w", "a", "r", "n", "i", "n", "g">>,
      <<"e", "r", "r", "o", "r">> }

(* supported_serverity = {"warning", "info", "error"} *)
supported_serverity ==
    { <<"w", "a", "r", "n", "i", "n", "g">>,
      <<"i", "n", "f", "o">>,
      <<"e", "r", "r", "o", "r">> }

(* parse_diagnostic_header *)
parse_diagnostic_header(ln) ==
    LET parts == split(ln, ":") IN
    IF Len(parts) # header_fields THEN nullopt
    ELSE LET file_name == parts[1]
             row_idx == parts[2]
             col_idx == parts[3]
             serverity == trim_left(parts[4])
             diagnostic_type == parts[5]
             square_brackets == find(diagnostic_type, "[")
         IN IF ~all_of_isdigit(row_idx) THEN nullopt
            ELSE IF ~all_of_isdigit(col_idx) THEN nullopt
            ELSE IF serverity \notin supported_serverity THEN nullopt
            ELSE IF square_brackets = Len(diagnostic_type) + 1 THEN nullopt
            ELSE IF Len(diagnostic_type) < 3 THEN nullopt
            ELSE IF diagnostic_type[Len(diagnostic_type)] # "]" THEN nullopt
            ELSE [has_value |-> TRUE,
                  file_name |-> file_name,
                  row_idx |-> row_idx,
                  col_idx |-> col_idx,
                  serverity |-> serverity,
                  brief |-> SubSeq(diagnostic_type, 1, square_brackets - 1),
                  diagnostic_type |-> SubSeq(diagnostic_type, square_brackets,
                                             Len(diagnostic_type))]

(* diags.emplace_back at the front. *)
emplace_front(ds, h) == <<[header |-> h, details |-> <<>>]>> \o ds

(* diags.emplace_back of the parsed header: a diagnostic with no details. *)
emplace_back(ds, h) == Append(ds, [header |-> h, details |-> <<>>])

(* The loop of parse_stdout from line i on. *)
RECURSIVE parse_stdout_loop(_, _, _, _)
parse_stdout_loop(lines, i, ds, needs_details) ==
    IF i > Len(lines) THEN ds
    ELSE LET header_line == parse_diagnostic_header(lines[i]) IN
         IF header_line.has_value
         THEN parse_stdout_loop(lines, i + 1, emplace_back(ds, header_line), TRUE)
         ELSE IF needs_details
         THEN parse_stdout_loop(lines, i + 1,
                                [ds EXCEPT ![Len(ds)].details = @ \o lines[i]],
                                TRUE)
         ELSE parse_stdout_loop(lines, i + 1, ds, needs_details)

(* parse_stdout *)
parse_stdout(out) == parse_stdout_loop(split(out, "\n"), 1, <<>>, FALSE)

(* The texts joined with sep between them. *)
RECURSIVE join_with(_, _)
join_with(texts, sep) ==
    IF texts = <<>> THEN <<>>
    ELSE IF Len(texts) = 1 THEN texts[1]
    ELSE texts[1] \o <<sep>> \o join_with(Tail(texts), sep)

(* The fields the input lines are made of: an empty field, digits, a name,
   the severities (one after white space), and fifth fields with a tag, with
   an empty pair of brackets, and of two characters. *)
FieldTexts ==
    { <<>>,
      <<"1", "2">>,
      <<"[", "m">>,
      <<" ", "w", "a", "r", "n", "i", "n", "g">>,
      <<"i", "n", "f", "o">>,
      <<"e", "r", "r", "o", "r">>,
      <<" ", "m", "[", "t", "]">>,
      <<"m", "[", "]">>,
      <<"[", "]">> }

(* The fields of a line of n fields: any of FieldTexts in a line that has no
   more fields than a header, and in a longer line the fields a header is
   made of. *)
InputFields(n) ==
    IF n <= header_fields
    THEN FieldTexts
    ELSE { <<>>,
           <<"1", "2">>,
           <<" ", "w", "a", "r", "n", "i", "n", "g">>,
           <<" ", "m", "[", "t", "]">> }

(* One call of parse_diagnostic_header. *)
call_parse_diagnostic_header ==
    /\ ppc = "line"
    /\ header' = parse_diagnostic_header(line)
    /\ ppc' = "line_done"
    /\ UNCHANGED <<line, std_out, diags>>
    /\ UNCHANGED statVars
    /\ UNCHANGED formatVars
    /\ UNCHANGED mapVars
    /\ UNCHANGED upsertVars
    /\ UNCHANGED scanVars

InitHeader ==
    /\ \E n \in 0..(header_fields + MaxExtraFields) :
           \E fs \in [1..n -> InputFields(n)] : line = join_with(fs, ":")
    /\ header = nullopt
    /\ std_out = <<>>
    /\ diags = <<>>
    /\ ppc = "line"
    /\ StatIdle
    /\ FormatIdle
    /\ MapIdle
    /\ UpsertIdle
    /\ ScanIdle

NextHeader == call_parse_diagnostic_header

SpecHeader == InitHeader /\ [][NextHeader]_vars

(* The lines the tool outputs are made of: two headers, a line of text, a
   second line of text, a line that has a sixth field, and an empty line. *)
StdoutLines ==
    { <<"f", ":", "1", ":", "2", ":", " ", "e", "r", "r", "o", "r", ":",
        " ", "m", "[", "t", "]">>,
      <<"g", ":", "3", ":", "4", ":", "i", "n", "f", "o", ":", "n", "[", "u", "]">>,
      <<"a">>,
      <<"b", "c">>,
      <<"f", ":", "1", ":", "2", ":", "i", "n", "f", "o", ":", "x", ":", "[", "t", "]">>,
      <<>> }

(* One call of parse_stdout. *)
call_parse_stdout ==
    /\ ppc = "stdout"
    /\ diags' = parse_stdout(std_out)
    /\ ppc' = "stdout_done"
    /\ UNCHANGED <<line, header, std_out>>
    /\ UNCHANGED statVars
    /\ UNCHANGED formatVars
    /\ UNCHANGED mapVars
    /\ UNCHANGED upsertVars
    /\ UNCHANGED scanVars

InitStdout ==
    /\ \E n \in 0..MaxLines : \E lines \in [1..n -> StdoutLines] :
           std_out = join_with(lines, "\n")
    /\ diags = <<>>
    /\ line = <<>>
    /\ header = nullopt
    /\ ppc = "stdout"
    /\ StatIdle
    /\ FormatIdle
    /\ MapIdle
    /\ UpsertIdle
    /\ ScanIdle

NextStdout == call_parse_stdout

SpecStdout == InitStdout /\ [][NextStdout]_vars

----------------------------------------------------------------------------
(* Claims about the diagnostic line parser. *)

ColonPlaces(l) == { i \in DOMAIN l : l[i] = ":" }

(* The k-th smallest number of S. *)
Nth(S, k) == CHOOSE x \in S : Cardinality({ y \in S : y < x }) = k - 1

(* Field k of a line that has four colons. *)
FieldOf(l, k) ==
    SubSeq(l,
           IF k = 1 THEN 1 ELSE Nth(ColonPlaces(l), k - 1) + 1,
           IF k = 5 THEN Len(l) ELSE Nth(ColonPlaces(l), k) - 1)

DigitsOnly(s) == \A i \in DOMAIN s : s[i] \in {"0", "1", "2", "3", "4", "5", "6", "7", "8", "9"}

(* s from its first character that is not white space on. *)
LeftTrimmed(s) ==
    LET black == { i \in DOMAIN s : s[i] \notin {" ", "\t"} }
    IN IF black = {} THEN <<>> ELSE SubSeq(s, Nth(black, 1), Len(s))

Severities ==
    { <<"w", "a", "r", "n", "i", "n", "g">>, <<"i", "n", "f", "o">>,
      <<"e", "r", "r", "o", "r">> }

IsHeaderLine(l) ==
    /\ Cardinality(ColonPlaces(l)) = 4
    /\ DigitsOnly(FieldOf(l, 2))
    /\ DigitsOnly(FieldOf(l, 3))
    /\ LeftTrimmed(FieldOf(l, 4)) \in Severities
    /\ LET f5 == FieldOf(l, 5)
       IN /\ \E i \in DOMAIN f5 : f5[i] = "["
          /\ Len(f5) >= 3
          /\ f5[Len(f5)] = "]"

(* C17: a line is parsed as a header exactly when it has five fields between
   colons, fields 2 and 3 of digits only, field 4 without its leading white
   space one of warning, info, error, and field 5 with a '[', a ']' at its
   end and three characters or more; brief is then field 5 before its first
   '[' and the tag field 5 from there on. *)
C17_HeaderGrammar ==
    ppc = "line_done" =>
        /\ header.has_value <=> IsHeaderLine(line)
        /\ header.has_value =>
               LET f5 == FieldOf(line, 5)
                   open == Nth({ i \in DOMAIN f5 : f5[i] = "[" }, 1)
               IN /\ header.brief = SubSeq(f5, 1, open - 1)
                  /\ header.diagnostic_type = SubSeq(f5, open, Len(f5))

(* A header whose severity follows white space and whose fifth field has
   text before the tag. *)
C17_Witness ==
    /\ ppc = "line_done"
    /\ header.has_value
    /\ FieldOf(line, 4) # header.serverity
    /\ header.brief # <<>>
    /\ header.diagnostic_type = <<"[", "t", "]">>

(* C18: the tag of a parsed header starts with '[', ends with ']' and has a
   character between the two. *)
C18_NonEmptyBracketedTag ==
    (ppc = "line_done" /\ header.has_value) =>
        /\ Len(header.diagnostic_type) >= 3
        /\ header.diagnostic_type[1] = "["
        /\ header.diagnostic_type[Len(header.diagnostic_type)] = "]"

(* The lines of the tool output and the places of its header lines. *)
OutputLines == split(std_out, "\n")

HeaderPlaces ==
    { i \in DOMAIN OutputLines : parse_diagnostic_header(OutputLines[i]).has_value }

(* The lines after the k-th header line up to the next header line. *)
DetailLines(k) ==
    SubSeq(OutputLines,
           Nth(HeaderPlaces, k) + 1,
           IF k = Cardinality(HeaderPlaces) THEN Len(OutputLines)
           ELSE Nth(HeaderPlaces, k + 1) - 1)

RECURSIVE Concat(_)
Concat(texts) == IF texts = <<>> THEN <<>> ELSE texts[1] \o Concat(Tail(texts))

(* C19: the details of the k-th diagnostic are the lines between the k-th
   header line and the next one, joined with a newline. *)
C19_DetailsNewlineJoined ==
    (ppc = "stdout_done" /\ Len(diags) = Cardinality(HeaderPlaces)) =>
        \A k \in DOMAIN diags :
            diags[k].details = join_with(DetailLines(k), "\n")

(* C20: there are as many diagnostics as header lines, the k-th diagnostic
   has the header of the k-th header line, and its details are made of the
   lines after that header line and before the next one, so of no line
   before the first header line. *)
C20_DiagnosticsMatchHeaderLines ==
    ppc = "stdout_done" =>
        /\ Len(diags) = Cardinality(HeaderPlaces)
        /\ \A k \in DOMAIN diags :
               /\ diags[k].header =
                      parse_diagnostic_header(OutputLines[Nth(HeaderPlaces, k)])
               /\ diags[k].details = Concat(DetailLines(k))

(* A line of text, then two header lines that differ. *)
C20_Witness ==
    /\ ppc = "stdout_done"
    /\ HeaderPlaces = {2, 3}
    /\ OutputLines[1] # <<>>
    /\ Len(diags) = 2
    /\ diags[1].header # diags[2].header

----------------------------------------------------------------------------
(* The run statistics parser of clang_tidy/base.cpp: try_match and
   parse_stderr. *)

MaxStderrLines == 3     \* lines of a standard error text

(* The items a pattern is made of: a capture of one or more digits, the
   characters of a text, an optional character and any one character. *)
digits == <<[kind |-> "digits", c |-> ""]>>      \* (\d+)
text(chars) == [i \in DOMAIN chars |-> [kind |-> "char", c |-> chars[i]]]
optional(ch) == <<[kind |-> "optional", c |-> ch]>>  \* ch?
any_char == <<[kind |-> "any", c |-> ""]>>       \* an unescaped .

(* "^(\\d+) warnings and (\\d+) errors? generated." *)
warning_and_error ==
    digits \o text(<<" ", "w", "a", "r", "n", "i", "n", "g", "s", " ", "a", "n",
                  "d", " ">>)
    \o digits \o text(<<" ", "e", "r", "r", "o", "r">>) \o optional("s")
    \o text(<<" ", "g", "e", "n", "e", "r", "a", "t", "e", "d">>) \o any_char

(* "^(\\d+) warnings? generated." *)
warnings_generated ==
    digits \o text(<<" ", "w", "a", "r", "n", "i", "n", "g">>) \o optional("s")
    \o text(<<" ", "g", "e", "n", "e", "r", "a", "t", "e", "d">>) \o any_char

(* "^(\\d+) errors? generated." *)
errors_generated ==
    digits \o text(<<" ", "e", "r", "r", "o", "r">>) \o optional("s")
    \o text(<<" ", "g", "e", "n", "e", "r", "a", "t", "e", "d">>) \o any_char

(* R"(Suppressed (\d+) warnings \((\d+) in non-user code\)\.)" *)
suppressed ==
    text(<<"S", "u", "p", "p", "r", "e", "s", "s", "e", "d", " ">>) \o digits
    \o text(<<" ", "w", "a", "r", "n", "i", "n", "g", "s", " ", "(">>) \o digits
    \o text(<<" ", "i", "n", " ", "n", "o", "n", "-", "u", "s", "e", "r",
              " ", "c", "o", "d", "e", ")", ".">>)

(* R"(Suppressed (\d+) warnings \((\d+) in non-user code, (\d+) NOLINT\)\.)" *)
suppressed_lint ==
    text(<<"S", "u", "p", "p", "r", "e", "s", "s", "e", "d", " ">>) \o digits
    \o text(<<" ", "w", "a", "r", "n", "i", "n", "g", "s", " ", "(">>) \o digits
    \o text(<<" ", "i", "n", " ", "n", "o", "n", "-", "u", "s", "e", "r",
              " ", "c", "o", "d", "e", ",", " ">>)
    \o digits \o text(<<" ", "N", "O", "L", "I", "N", "T", ")", ".">>)

(* "^(\\d+) warnings treated as errors" *)
warnings_as_errors ==
    digits
    \o text(<<" ", "w", "a", "r", "n", "i", "n", "g", "s", " ", "t", "r",
              "e", "a", "t", "e", "d", " ", "a", "s", " ", "e", "r", "r",
              "o", "r", "s">>)

(* No match. *)
no_match == [matched |-> FALSE, captures |-> <<>>]

(* How many digits ln has from character i on. *)
RECURSIVE digits_from(_, _)
digits_from(ln, i) ==
    IF i <= Len(ln) /\ isdigit(ln[i]) THEN 1 + digits_from(ln, i + 1) ELSE 0

(* The match of ln from character i on with the pattern from item k on, caps
   being the captures made before: every item takes as much as the rest of
   the match allows, and the match ends where ln ends. *)
RECURSIVE match_from(_, _, _, _, _)
match_from(ln, i, regex, k, caps) ==
    IF k > Len(regex) THEN [matched |-> i > Len(ln), captures |-> caps]
    ELSE IF regex[k].kind = "char"
    THEN IF i <= Len(ln) /\ ln[i] = regex[k].c
         THEN match_from(ln, i + 1, regex, k + 1, caps)
         ELSE no_match
    ELSE IF regex[k].kind = "any"
    THEN IF i <= Len(ln)
         THEN match_from(ln, i + 1, regex, k + 1, caps)
         ELSE no_match
    ELSE IF regex[k].kind = "optional"
    THEN LET taken == IF i <= Len(ln) /\ ln[i] = regex[k].c
                      THEN match_from(ln, i + 1, regex, k + 1, caps)
                      ELSE no_match
         IN IF taken.matched THEN taken
            ELSE match_from(ln, i, regex, k + 1, caps)
    ELSE LET rest(n) == match_from(ln, i + n, regex, k + 1,
                                   Append(caps, SubSeq(ln, i, i + n - 1)))
             most == digits_from(ln, i)
             all_taken == rest(most)
             fit == { n \in 1..(most - 1) : rest(n).matched }
         IN IF most = 0 THEN no_match
            ELSE IF all_taken.matched THEN all_taken
            ELSE IF fit = {} THEN no_match
            ELSE rest(CHOOSE n \in fit : \A m \in fit : m <= n)

(* boost::regex_match(line, match, regex): the whole line matches the
   pattern; captures[k] is match[k].str(). *)
regex_match(ln, regex) == match_from(ln, 1, regex, 1, <<>>)

(* The value of a decimal digit. *)
digit_value(ch) ==
    CHOOSE d \in 0..9 :
        <<"0", "1", "2", "3", "4", "5", "6", "7", "8", "9">>[d + 1] = ch

(* stoi of a text of decimal digits. *)
RECURSIVE stoi(_)
stoi(s) ==
    IF s = <<>> THEN 0
    ELSE 10 * stoi(SubSeq(s, 1, Len(s) - 1)) + digit_value(s[Len(s)])

(* std::stoi of a text of decimal digits raises std::invalid_argument when
   there is no digit to convert. *)
stoi_throws(s) == s = <<>>

(* A warning_and_error_cb that takes each counter from the other capture. *)
warning_and_error_cb_swapped(st, match) ==
    [st EXCEPT !.warnings = stoi(match[2]), !.errors = stoi(match[1])]

(* warning_and_error_cb *)
warning_and_error_cb(st, match) ==
    [st EXCEPT !.warnings = stoi(match[1]), !.errors = stoi(match[2])]

(* A warnings_generated_cb that adds to the counter. *)
warnings_generated_cb_adding(st, match) ==
    [st EXCEPT !.warnings = @ + stoi(match[1])]

(* warnings_generated_cb *)
warnings_generated_cb(st, match) == [st EXCEPT !.warnings = stoi(match[1])]

(* errors_generated_cb *)
errors_generated_cb(st, match) == [st EXCEPT !.errors = stoi(match[1])]

(* suppressed_cb *)
suppressed_cb(st, match) ==
    [st EXCEPT !.total_suppressed_warnings = stoi(match[1]),
               !.non_user_code_warnings = stoi(match[2])]

(* suppressed_and_nolint_cb *)
suppressed_and_nolint_cb(st, match) ==
    [st EXCEPT !.total_suppressed_warnings = stoi(match[1]),
               !.non_user_code_warnings = stoi(match[2]),
               !.no_lint_warnings = stoi(match[3])]

(* warnings_as_errors_cb *)
warnings_as_errors_cb(st, match) ==
    [st EXCEPT !.warnings_treated_as_errors = stoi(match[1])]

(* callback(match) for the callback of that name, stat being st. *)
call(callback, st, match) ==
    CASE callback = "warning_and_error_cb" -> warning_and_error_cb(st, match)
      [] callback = "warnings_generated_cb" -> warnings_generated_cb(st, match)
      [] callback = "errors_generated_cb" -> errors_generated_cb(st, match)
      [] callback = "suppressed_cb" -> suppressed_cb(st, match)
      [] callback = "warnings_as_errors_cb" -> warnings_as_errors_cb(st, match)
      [] callback = "suppressed_and_nolint_cb" ->
             suppressed_and_nolint_cb(st, match)

(* try_match: the callback is called when the line matches; st is stat
   before the call, the value is stat after it. *)
try_match(ln, regex_str, callback, st) ==
    LET match == regex_match(ln, regex_str) IN
    IF match.matched THEN call(callback, st, match.captures) ELSE st

(* The body of parse_stderr's loop for one line. *)
parse_stderr_line(st, ln) ==
    LET s1 == try_match(ln, warning_and_error, "warning_and_error_cb", st)
        s2 == try_match(ln, warnings_generated, "warnings_generated_cb", s1)
        s3 == try_match(ln, errors_generated, "errors_generated_cb", s2)
        s4 == try_match(ln, suppressed, "suppressed_cb", s3)
        s5 == try_match(ln, warnings_as_errors, "warnings_as_errors_cb", s4)
    IN try_match(ln, suppressed_lint, "suppressed_and_nolint_cb", s5)

(* One iteration of parse_stderr's loop over the lines of std_err. *)
parse_stderr_loop ==
    /\ epc = "lines"
    /\ LET lines == split(std_err, "\n") IN
       /\ line_no < Len(lines)
       /\ stat' = parse_stderr_line(stat, lines[line_no + 1])
    /\ line_no' = line_no + 1
    /\ UNCHANGED <<std_err, epc>>
    /\ UNCHANGED formatVars
    /\ UNCHANGED parseVars
    /\ UNCHANGED mapVars
    /\ UNCHANGED upsertVars
    /\ UNCHANGED scanVars

(* parse_stderr returns stat once the loop has passed every line. *)
parse_stderr_returns ==
    /\ epc = "lines"
    /\ line_no = Len(split(std_err, "\n"))
    /\ epc' = "done"
    /\ UNCHANGED <<std_err, stat, line_no>>
    /\ UNCHANGED formatVars
    /\ UNCHANGED parseVars
    /\ UNCHANGED mapVars
    /\ UNCHANGED upsertVars
    /\ UNCHANGED scanVars

(* The lines a standard error text is made of: one line per pattern, a line
   with text before the count, and an empty line. *)
StderrLines ==
    { <<"5", " ", "w", "a", "r", "n", "i", "n", "g", "s", " ", "a", "n", "d",
        " ", "1", " ", "e", "r", "r", "o", "r", " ", "g", "e", "n", "e", "r",
        "a", "t", "e", "d", ".">>,
      <<"3", " ", "w", "a", "r", "n", "i", "n", "g", "s", " ", "g", "e", "n",
        "e", "r", "a", "t", "e", "d", ".">>,
      <<"1", "2", " ", "e", "r", "r", "o", "r", "s", " ", "g", "e", "n", "e",
        "r", "a", "t", "e", "d", ".">>,
      <<"S", "u", "p", "p", "r", "e", "s", "s", "e", "d", " ", "4", " ", "w",
        "a", "r", "n", "i", "n", "g", "s", " ", "(", "4", " ", "i", "n", " ",
        "n", "o", "n", "-", "u", "s", "e", "r", " ", "c", "o", "d", "e", ")",
        ".">>,
      <<"S", "u", "p", "p", "r", "e", "s", "s", "e", "d", " ", "6", " ", "w",
        "a", "r", "n", "i", "n", "g", "s", " ", "(", "5", " ", "i", "n", " ",
        "n", "o", "n", "-", "u", "s", "e", "r", " ", "c", "o", "d", "e", ",",
        " ", "1", " ", "N", "O", "L", "I", "N", "T", ")", ".">>,
      <<"2", " ", "w", "a", "r", "n", "i", "n", "g", "s", " ", "t", "r", "e",
        "a", "t", "e", "d", " ", "a", "s", " ", "e", "r", "r", "o", "r", "s">>,
      <<">", " ", "7", " ", "w", "a", "r", "n", "i", "n", "g", "s", " ", "g",
        "e", "n", "e", "r", "a", "t", "e", "d", ".">>,
      <<>> }

InitStderr ==
    /\ \E n \in 0..MaxStderrLines : \E lines \in [1..n -> StderrLines] :
           std_err = join_with(lines, "\n")
    /\ stat = statistic
    /\ line_no = 0
    /\ epc = "lines"
    /\ FormatIdle
    /\ ParseIdle
    /\ MapIdle
    /\ UpsertIdle
    /\ ScanIdle

NextStderr == parse_stderr_loop \/ parse_stderr_returns

SpecStderr == InitStderr /\ [][NextStderr]_vars

----------------------------------------------------------------------------
(* Claims about the run statistics parser. *)

Counters == DOMAIN statistic

(* The rules the six patterns stand for: which capture of which pattern is
   the value of which counter. *)
Assigning(counter) ==
    CASE counter = "warnings" ->
             { [regex |-> warning_and_error, capture |-> 1],
               [regex |-> warnings_generated, capture |-> 1] }
      [] counter = "errors" ->
             { [regex |-> warning_and_error, capture |-> 2],
               [regex |-> errors_generated, capture |-> 1] }
      [] counter = "total_suppressed_warnings" ->
             { [regex |-> suppressed, capture |-> 1],
               [regex |-> suppressed_lint, capture |-> 1] }
      [] counter = "non_user_code_warnings" ->
             { [regex |-> suppressed, capture |-> 2],
               [regex |-> suppressed_lint, capture |-> 2] }
      [] counter = "no_lint_warnings" ->
             { [regex |-> suppressed_lint, capture |-> 3] }
      [] counter = "warnings_treated_as_errors" ->
             { [regex |-> warnings_as_errors, capture |-> 1] }

(* The lines among lines that match a rule assigning the counter. *)
LinesAssigning(lines, counter) ==
    { i \in DOMAIN lines :
        \E r \in Assigning(counter) : regex_match(lines[i], r.regex).matched }

(* The values the rules assigning the counter capture on line i of lines. *)
CapturedOn(lines, counter, i) ==
    { stoi(regex_match(lines[i], r.regex).captures[r.capture]) :
        r \in { q \in Assigning(counter) : regex_match(lines[i], q.regex).matched } }

(* C21: once parse_stderr has returned, every counter is the value captured
   on the last line of the text that matches a rule assigning that counter,
   and zero when no line matches such a rule; a text with no matching line
   gives the all-zero statistic, and the parse returns. *)
C21_LastMatchWins ==
    epc = "done" =>
        LET lines == split(std_err, "\n") IN
        \A counter \in Counters :
            LET matching == LinesAssigning(lines, counter) IN
            IF matching = {} THEN stat[counter] = 0
            ELSE LET last == CHOOSE i \in matching : \A j \in matching : j <= i
                 IN CapturedOn(lines, counter, last) = {stat[counter]}

(* parse_stderr returned for a text in which two lines assign the warnings
   counter different values, the later one being the counter's. *)
C21_Witness ==
    /\ epc = "done"
    /\ LET lines == split(std_err, "\n") IN
       \E i, j \in LinesAssigning(lines, "warnings") :
           /\ i < j
           /\ CapturedOn(lines, "warnings", i) # CapturedOn(lines, "warnings", j)
           /\ CapturedOn(lines, "warnings", j) = {stat.warnings}

(* C22, as stated: counters start at zero, are never negative, and while a
   text is parsed line by line no counter takes a value smaller than the
   value it held before. *)
C22_CountersNeverDecrease ==
    [][ /\ line_no = 0 => \A counter \in Counters : stat[counter] = 0
        /\ \A counter \in Counters : stat[counter] >= 0 /\ stat'[counter] >= 0
        /\ \A counter \in Counters : stat'[counter] >= stat[counter] ]_vars

(* C22, amended: counters start at zero and are never negative; while a
   text is parsed line by line a counter changes only on a line that matches
   a rule assigning it, and then to the value captured on that line, be it
   smaller than the value held before or not. *)
C22_CountersAssignedFromMatchingLines ==
    [][ /\ line_no = 0 => \A counter \in Counters : stat[counter] = 0
        /\ \A counter \in Counters : stat[counter] >= 0 /\ stat'[counter] >= 0
        /\ LET lines == split(std_err, "\n") IN
           \A counter \in Counters :
               IF line_no' # line_no
                  /\ line_no' \in LinesAssigning(lines, counter)
               THEN CapturedOn(lines, counter, line_no') = {stat'[counter]}
               ELSE stat'[counter] = stat[counter] ]_vars

(* The loop has just passed a line that assigns the warnings counter a
   value smaller than the one an earlier line had assigned. *)
C22_Witness ==
    /\ epc = "lines"
    /\ LET lines == split(std_err, "\n") IN
       /\ line_no \in LinesAssigning(lines, "warnings")
       /\ CapturedOn(lines, "warnings", line_no) = {stat.warnings}
       /\ \E i \in LinesAssigning(lines, "warnings") :
              /\ i < line_no
              /\ \A v \in CapturedOn(lines, "warnings", i) : v > stat.warnings

----------------------------------------------------------------------------
(* The style checker's per-file operation, clang_format::apply_on_single_file,
   called once on what the tool does for one file. *)

(* The texts the invocation that prints the formatted source may print. *)
FormattedSources == {"", "formatted"}

(* One call of apply_on_single_file. *)
call_apply_on_single_file ==
    /\ fpc = "call"
    /\ format_outcome' =
           apply_on_single_file(format_input.needs_formatted_source_code,
                                format_input.file,
                                format_input.xml_res.exit_code,
                                format_input.xml_res.std_out,
                                format_input.code_res.exit_code,
                                format_input.code_res.std_out)
    /\ fpc' = "done"
    /\ UNCHANGED format_input
    /\ UNCHANGED statVars
    /\ UNCHANGED parseVars
    /\ UNCHANGED mapVars
    /\ UNCHANGED upsertVars
    /\ UNCHANGED scanVars

InitFormat ==
    /\ format_input \in
           [needs_formatted_source_code : BOOLEAN,
            file : {1},
            xml_res : [exit_code : ExitCodes, std_out : XmlDocuments],
            code_res : [exit_code : ExitCodes, std_out : FormattedSources]]
    /\ format_outcome = <<>>
    /\ fpc = "call"
    /\ StatIdle
    /\ ParseIdle
    /\ MapIdle
    /\ UpsertIdle
    /\ ScanIdle

NextFormat == call_apply_on_single_file

SpecFormat == InitFormat /\ [][NextFormat]_vars

----------------------------------------------------------------------------
(* Claims about the style checker's per-file operation. *)

(* The call returned a result (it did not raise). *)
Returned == fpc = "done" /\ ~format_outcome.raised

(* The exit codes of the invocations made, in the order they were made. *)
ExitCodesOf ==
    [i \in DOMAIN format_outcome.executed |-> format_outcome.executed[i].exit_code]

(* C23, as stated: every returned result passes if and only if its
   replacement list is empty. *)
C23_PassIffNoReplacement ==
    Returned =>
        (format_outcome.result.pass <=> format_outcome.result.replacements = <<>>)

(* C23, amended: a result returned after invocations that all ended with
   exit code 0 passes if and only if its replacement list is empty; a result
   returned after an invocation that ended with another exit code does not
   pass and has an empty replacement list. *)
C23_PassIffNoReplacementUnlessToolFailed ==
    Returned =>
        IF \A i \in DOMAIN ExitCodesOf : ExitCodesOf[i] = 0
        THEN format_outcome.result.pass
                 <=> format_outcome.result.replacements = <<>>
        ELSE /\ ~format_outcome.result.pass
             /\ format_outcome.result.replacements = <<>>

(* A result was returned for an empty replacements root, after invocations
   that ended with exit code 0. *)
C23_Witness ==
    /\ Returned
    /\ format_input.xml_res.std_out = replacements_document(0)
    /\ ExitCodesOf \in {<<0>>, <<0, 0>>}
    /\ format_outcome.result.pass
    /\ format_outcome.result.replacements = <<>>

(* The replacement elements of the document the first invocation printed. *)
FoundByFirst == format_input.xml_res.std_out.replacements

(* C24: the tool is invoked a second time only when the formatted source is
   requested and after a first invocation that ended with exit code 0; when
   the second invocation fails the result does not pass, whatever the first
   found; when it succeeds its output is the result's formatted source and
   pass is what the first invocation's replacements make it. *)
C24_SecondInvocation ==
    Returned =>
        /\ Len(format_outcome.executed) \in {1, 2}
        /\ format_outcome.executed[1].output_style = "replacement_xml"
        /\ ~format_input.needs_formatted_source_code
               => Len(format_outcome.executed) = 1
        /\ Len(format_outcome.executed) = 2 =>
               /\ format_input.needs_formatted_source_code
               /\ format_input.xml_res.exit_code = 0
               /\ format_outcome.executed[1].exit_code = 0
               /\ format_outcome.executed[2].output_style = "formatted_source_code"
               /\ format_outcome.executed[2].exit_code
                      = format_input.code_res.exit_code
               /\ format_input.code_res.exit_code # 0
                      => ~format_outcome.result.pass
               /\ format_input.code_res.exit_code = 0 =>
                      /\ format_outcome.result.formatted_source_code
                             = format_input.code_res.std_out
                      /\ format_outcome.result.pass <=> FoundByFirst = 0
                      /\ Len(format_outcome.result.replacements) = FoundByFirst
        /\ ( /\ format_input.needs_formatted_source_code
             /\ format_input.xml_res.exit_code = 0 )
               => Len(format_outcome.executed) = 2

(* A second invocation failed after a first one that found no replacement,
   and the result does not pass. *)
C24_Witness ==
    /\ Returned
    /\ Len(format_outcome.executed) = 2
    /\ FoundByFirst = 0
    /\ format_input.code_res.exit_code # 0
    /\ ~format_outcome.result.pass

----------------------------------------------------------------------------
(* More claims about the scan of main. *)

(* The files the style checker has a result for. *)
ClangFormatResults ==
    DOMAIN linter_result.clang_format_passed
        \cup DOMAIN linter_result.clang_format_failed

(* C25: a style checker invocation whose output is malformed ends that
   file's invocation only: once the scan is past an invocation, its file
   has a result (a failed one with no replacements when the output was
   malformed), and the run goes on, it is not ended by the error. *)
C25_MalformedOutputFailsOnlyThatFile ==
    /\ \A i \in DOMAIN invoked :
           ( /\ invoked[i][1] = "clang_format"
             /\ i < Len(invoked) \/ spc # "format" )
               => invoked[i][2] \in ClangFormatResults
    /\ spc # "aborted"

----------------------------------------------------------------------------
(* More claims about the building of review comments. *)

(* C26: when the failed file has no patch entry, building the review
   comments ends in a fault (a failed assertion or a raised error) and
   returns no comment list; when it has one, the operation returns. *)
C26_MissingPatchFaults ==
    mpc # "input" =>
        IF patches_contains
        THEN mpc = "done"
        ELSE mpc \in {"assert_failed", "raised"} /\ comments = <<>>

(* The operation ended in a fault for a failed file without a patch. *)
C26_Witness ==
    /\ ~patches_contains
    /\ mpc \in {"assert_failed", "raised"}

----------------------------------------------------------------------------
(* A whole run of main: the scans, then the step summary, the issue comment
   and the review, then the return. *)

(* main up to the scans, of a run without fast exit in which both tools
   check the same files and the issue comment and the review are enabled
   together. *)
InitRun ==
    /\ ctx \in [enable_clang_format : BOOLEAN, enable_clang_tidy : BOOLEAN,
                enable_clang_format_fastly_exit : {FALSE},
                enable_clang_tidy_fastly_exit : {FALSE},
                enable_pull_request_review : BOOLEAN,
                enable_step_summary : BOOLEAN,
                enable_comment_on_issue : BOOLEAN]
    /\ ctx.enable_comment_on_issue = ctx.enable_pull_request_review
    /\ \E n \in 0..MaxFiles :
         /\ changed_files = [i \in 1..n |-> i]
         /\ \E files \in SUBSET (1..n) :
                needs_check = [clang_format |-> files, clang_tidy |-> files]
    /\ linter_result = EmptyResult
    /\ spc = "format"
    /\ idx = 1
    /\ invoked = <<>>
    /\ summary_file = <<>>
    /\ posted = <<>>
    /\ exit_status = <<>>
    /\ MapIdle
    /\ UpsertIdle
    /\ ParseIdle
    /\ StatIdle
    /\ FormatIdle

NextRun ==
    \/ apply_clang_format_on_files
    \/ clang_format_scan_ends
    \/ apply_clang_tidy_on_files
    \/ clang_tidy_scan_ends
    \/ write_step_summary
    \/ write_to_github_step_summary
    \/ comment_on_issue
    \/ post_pull_request_review
    \/ main_returns

SpecRun == InitRun /\ [][NextRun]_vars

(* The place of a file in the changed-file list. *)
PlaceOf(file) == CHOOSE i \in DOMAIN changed_files : changed_files[i] = file

(* Something was written to the step summary or posted. *)
Produced == summary_file # <<>> \/ posted # <<>>

(* C27: a tool is invoked on files in the order of the changed-file list,
   every file at most once and one invocation per step; no style checker
   invocation follows a diagnostics checker invocation; and nothing is
   written to the step summary or posted while a scan is at work, nor is a
   tool invoked once something was. *)
C27_RunOrdering ==
    /\ [](\A i, j \in DOMAIN invoked :
              i < j =>
                  /\ invoked[i][1] = invoked[j][1]
                         => PlaceOf(invoked[i][2]) < PlaceOf(invoked[j][2])
                  /\ ~(invoked[i][1] = "clang_tidy" /\ invoked[j][1] = "clang_format"))
    /\ [](Produced => spc \notin {"format", "tidy"})
    /\ [][ /\ invoked' # invoked =>
                /\ ~Produced
                /\ \E one \in {"clang_format", "clang_tidy"} \X Range(changed_files) :
                       invoked' = Append(invoked, one)
           /\ Produced => invoked' = invoked ]_vars

(* Both tools were invoked on two files each, and then a step summary, an
   issue comment and a review were produced. *)
C27_Witness ==
    /\ spc = "exited"
    /\ \E i, j \in DOMAIN invoked :
           i < j /\ invoked[i][1] = "clang_format" /\ invoked[j][1] = "clang_format"
    /\ \E i, j \in DOMAIN invoked :
           i < j /\ invoked[i][1] = "clang_tidy" /\ invoked[j][1] = "clang_tidy"
    /\ summary_file # <<>>
    /\ posted = <<"issue_comment", "review">>

----------------------------------------------------------------------------
(* More claims about the comment upsert protocol. *)

(* The calls of the same client after call i, their places in the log. *)
LaterUpserts(i) ==
    { j \in DOMAIN log : j > i /\ log[j].run = log[i].run /\ log[j].op = "upsert" }

(* C28: the held id stores any id a fetch or a create returned: after the
   call the held id is that id and is not the 'no comment' word, and the
   client's next upsert is an update addressed to that id. *)
C28_HeldIdIsReturnedId ==
    \A i \in DOMAIN log :
        (~log[i].raised /\ log[i].returned # NoId) =>
            /\ log[i].after # UnsetCommentId
            /\ as_id(log[i].after) = log[i].returned
            /\ \A j \in LaterUpserts(i) :
                   (\A k \in LaterUpserts(i) : j <= k) =>
                       /\ log[j].request \in {"update", "none"}
                       /\ log[j].request = "update" => log[j].target = log[i].returned

(* C29: a call that is answered with a failure status raises and leaves the
   held id as it was before the call, and an update attempted while no id
   is held raises without a request. *)
C29_FailedCallKeepsHeldId ==
    \A i \in DOMAIN log :
        /\ log[i].answer = "failure" =>
               /\ log[i].raised
               /\ log[i].after = log[i].before
               /\ log[i].returned = NoId
        /\ ( /\ log[i].request \in {"update", "none"}
             /\ log[i].before = UnsetCommentId ) =>
               /\ log[i].request = "none"
               /\ log[i].raised
               /\ log[i].after = log[i].before

(* A create was answered with a failure status while no id was held, an
   update of a held id was answered with one, and an update was attempted
   while no id was held. *)
C29_Witness ==
    /\ \E i \in DOMAIN log :
           /\ log[i].request = "create" /\ log[i].answer = "failure"
           /\ log[i].after = UnsetCommentId
    /\ \E i \in DOMAIN log :
           /\ log[i].request = "update" /\ log[i].answer = "failure"
           /\ log[i].after = log[i].before
    /\ \E i \in DOMAIN log :
           log[i].request = "none" /\ log[i].before = UnsetCommentId

----------------------------------------------------------------------------
(* One more claim about the diagnostic line parser. *)

(* C30: every header parse_diagnostic_header accepts has a row and a column
   that are non-empty texts of decimal digits, so std::stoi of them, as
   make_pr_review_comment calls it, does not raise. *)
C30_RowAndColumnConvertible ==
    (ppc = "line_done" /\ header.has_value) =>
        /\ header.row_idx # <<>> /\ all_of_isdigit(header.row_idx)
        /\ header.col_idx # <<>> /\ all_of_isdigit(header.col_idx)
        /\ ~stoi_throws(header.row_idx)
        /\ ~stoi_throws(header.col_idx)

=============================================================================
